---- MODULE Spec2Model ----
(***************************************************************************)
(* Model of cdk/app.py of ecsdemo-frontend: the single construction pass   *)
(* of the two stack classes (FrontendService, FrontendServiceMesh) over    *)
(* the shared BasePlatform construct, followed by app.synth() and the      *)
(* start-up of one task of the declared task definition.                   *)
(*                                                                         *)
(* One action per statement of the constructors.  The statement order of a *)
(* constructor is the sequence DirectProgram / MeshProgram; pc is the      *)
(* index of the next statement to execute.                                 *)
(***************************************************************************)
EXTENDS Integers, Sequences, FiniteSets, TLC

\* ------------------------------------------------------------------ bounds
\* Longest value of an environment variable that is enumerated.
MaxEnvLen == 2

\* Characters an enumerated environment value is made of.
EnvChars == {"u", "s"}

\* ------------------------------------------------------- python values
\* os.getenv yields None for an unset variable and the string (possibly the
\* empty string) for a set one.
None == [isset |-> FALSE, val |-> <<>>]
Str(s) == [isset |-> TRUE, val |-> s]

EnvStrings == UNION {[1..n -> EnvChars] : n \in 0..MaxEnvLen}
EnvValues == {None} \cup {Str(s) : s \in EnvStrings}

\* The account id takes no part in any container setting: unset or one value.
AccountValues == {None, Str(<<"1">>)}

\* ---------------------------------------------------- program constants
FrontendPort == 3000
ProxyIngressPort == 15000
ProxyEgressPort == 15001
IgnoredUid == 1337
NoFileLimit == 15000
DirectDesiredCount == 1
MeshDesiredCount == 3
\* The floor of the commented-out autoscaling block of FrontendService.
MinCapacityDirect == 1
MinCapacity == 3
MaxCapacity == 10
TargetUtilizationPercent == 50
CooldownSeconds == 30
HealthInterval == 5
HealthTimeout == 10
HealthRetries == 10
RouteWeight == 1

\* Construct ids of the shared security boundary and of the security group
\* the load-balanced pattern creates for its own service.
ServicesSecGrpId == "ServicesSecGrp"
PatternServiceSG == "FrontendFargateLBService/Service/SecurityGroup"

\* Construct ids of the four kinds of mesh entity a stack can create.
MeshEntityIds ==
  {"MeshFrontEndNode", "MeshVirtualRouter", "MeshFrontEndVRRoute",
   "mesh-frontend-vs", "MeshVGWRouter"}

VARIABLES
  environ,        \* process environment: AWS_DEFAULT_REGION, AWS_ACCOUNT_ID
  meshWorkshop,   \* FALSE: line 354 is the active instantiation; TRUE: line 357
  pc,             \* index of the next statement of Program
  stack,          \* class of the stack being constructed, "none" before
  stackEnv,       \* core.Environment handed to the stack
  constructed,    \* construct ids, in order of construction
  refs,           \* <<a, b>>: construct a was given a reference to construct b
  platform,       \* BasePlatform attributes (vpc, sd_namespace, ecs_cluster, services_sec_grp)
  sgRules,        \* security group id -> rules this stack declares on it
  taskImage,      \* ApplicationLoadBalancedTaskImageOptions of the direct strategy
  containers,     \* container name -> container definition of the task definition
  taskdef,        \* task definition settings, roles' policies
  service,        \* the ECS service descriptor, None-like before creation
  appmesh,        \* virtual nodes, routers, routes, services, gateway routes
  autoscale,      \* scalable target and its scaling policies
  outputs,        \* export name -> <<construct id, attribute>>
  synthesized,    \* app.synth() has emitted the template
  cstate,         \* task start-up: container name -> "PENDING" | "RUNNING"
  health          \* task start-up: container name -> "UNKNOWN" | "HEALTHY" | "UNHEALTHY"

vars ==
  <<environ, meshWorkshop, pc, stack, stackEnv, constructed, refs, platform,
    sgRules, taskImage, containers, taskdef, service, appmesh, autoscale, outputs,
    synthesized, cstate, health>>

\* --------------------------------------------------------------- helpers
getenv(name) == environ[name]

Built(id) == \E i \in 1..Len(constructed) : constructed[i] = id

IndexOf(id) == CHOOSE i \in 1..Len(constructed) : constructed[i] = id

\* Constructing `id` with references to the constructs in `to`.
Construct(id, to) ==
  /\ constructed' = Append(constructed, id)
  /\ refs' = refs \cup {<<id, t>> : t \in to}

\* Several constructs created by one statement, each with its references.
ConstructAll(ids, to) ==
  /\ constructed' = constructed \o ids
  /\ refs' = refs \cup {<<ids[i], t>> : i \in 1..Len(ids), t \in to}

NoService ==
  [exists |-> FALSE, id |-> "", service_name |-> "", desired_count |-> 0,
   security_group |-> "", cloud_map_name |-> "", public_load_balancer |-> FALSE]

NoAutoscale ==
  [enabled |-> FALSE, min_capacity |-> 0, max_capacity |-> 0, policies |-> {}]

NoHealthCheck ==
  [enabled |-> FALSE, interval |-> 0, timeout |-> 0, retries |-> 0, command |-> <<>>]

\* aws_ec2.Port(protocol=TCP, from_port=p, to_port=q) as a rule with a peer.
TcpRule(direction, peer, p, q) ==
  [direction |-> direction, peer |-> peer, protocol |-> "TCP",
   from_port |-> p, to_port |-> q]

\* ------------------------------------------------------ statement order
\* BasePlatform.__init__: the four lookups, in order.
PlatformProgram ==
  <<"vpc", "sd_namespace", "ecs_cluster", "services_sec_grp">>

\* FrontendService.__init__ after BasePlatform.
DirectProgram ==
  <<"fargate_task_image", "fargate_load_balanced_service",
    "lb_add_to_task_role_policy", "allow_to">>

\* The constructor with the sidecar and the start-up dependency moved in front
\* of the service, the virtual node after it.
MeshProgramSidecarFirst ==
  <<"mesh", "mesh_vgw", "mesh_crystal_vs", "mesh_nodejs_vs",
    "fargate_task_def", "logGroup", "app_container", "add_port_mappings",
    "envoy_container", "add_ulimits", "add_container_dependencies",
    "fargate_service", "mesh_frontend_vn", "add_to_task_role_policy",
    "allow_from_any_ipv4",
    "exec_policy_ecr", "exec_policy_logs",
    "task_policy_cloudwatch", "task_policy_envoy",
    "meshVR", "add_route", "mesh_frontend_vs", "mesh_gt_router",
    "auto_scale_task_count", "scale_on_cpu_utilization",
    "output_vn_arn", "output_vn_name", "output_vgr_arn">>

\* The constructor with the router, virtual service and gateway route moved in
\* front of the role and ingress statements.
MeshProgramRouterFirst ==
  <<"mesh", "mesh_vgw", "mesh_crystal_vs", "mesh_nodejs_vs",
    "fargate_task_def", "logGroup", "app_container", "add_port_mappings",
    "fargate_service", "mesh_frontend_vn", "envoy_container", "add_ulimits",
    "add_container_dependencies",
    "meshVR", "add_route", "mesh_frontend_vs", "mesh_gt_router",
    "add_to_task_role_policy", "allow_from_any_ipv4",
    "exec_policy_ecr", "exec_policy_logs",
    "task_policy_cloudwatch", "task_policy_envoy",
    "auto_scale_task_count", "scale_on_cpu_utilization",
    "output_vn_arn", "output_vn_name", "output_vgr_arn">>

\* FrontendServiceMesh.__init__ after BasePlatform.
MeshProgram ==
  <<"mesh", "mesh_vgw", "mesh_crystal_vs", "mesh_nodejs_vs",
    "fargate_task_def", "logGroup", "app_container", "add_port_mappings",
    "fargate_service", "mesh_frontend_vn", "envoy_container", "add_ulimits",
    "add_container_dependencies", "add_to_task_role_policy",
    "allow_from_any_ipv4",
    "exec_policy_ecr", "exec_policy_logs",
    "task_policy_cloudwatch", "task_policy_envoy",
    "meshVR", "add_route", "mesh_frontend_vs", "mesh_gt_router",
    "auto_scale_task_count", "scale_on_cpu_utilization",
    "output_vn_arn", "output_vn_name", "output_vgr_arn">>

\* The entry point with the mesh stack instantiated whatever the toggle.
EntryStackAlwaysMesh(workshop) == "FrontendServiceMesh"

\* The stack class the module's entry point instantiates: FrontendService at
\* line 354, or FrontendServiceMesh when the commented-out line 357 of the
\* App Mesh workshop is the active one.
EntryStack(workshop) ==
  IF workshop THEN "FrontendServiceMesh" ELSE "FrontendService"

\* The whole run of the module: instantiate the stack, construct it, synth.
Program ==
  <<"main">> \o PlatformProgram
    \o (IF EntryStack(meshWorkshop) = "FrontendServiceMesh"
        THEN MeshProgram ELSE DirectProgram)
    \o <<"synth">>

Cur == IF pc \in 1..Len(Program) THEN Program[pc] ELSE "end"

\* Frame of a constructor statement: it advances pc and touches neither the
\* inputs nor anything that exists only after synthesis.
Stmt(label) ==
  /\ Cur = label
  /\ pc' = pc + 1
  /\ UNCHANGED <<environ, meshWorkshop, stack, stackEnv, synthesized, cstate, health>>

\* ------------------------------------------------------------------ Init
NoPlatform ==
  [environment_name |-> "ecsworkshop",
   vpc |-> [resolved |-> FALSE, vpc_name |-> <<>>],
   sd_namespace |-> [resolved |-> FALSE, namespace_name |-> "", namespace_arn |-> "", namespace_id |-> ""],
   ecs_cluster |-> [resolved |-> FALSE, cluster_name |-> "", security_groups |-> {}],
   services_sec_grp |-> [resolved |-> FALSE, security_group_id |-> ""]]

NoTaskImage ==
  [set |-> FALSE, image |-> "", container_port |-> 0,
   CRYSTAL_URL |-> "", NODEJS_URL |-> "", REGION |-> None]

NoTaskDef ==
  [exists |-> FALSE, id |-> "", cpu |-> 0, memory_mib |-> 0,
   proxy |-> [enabled |-> FALSE, container_name |-> "", app_ports |-> {},
              proxy_ingress_port |-> 0, proxy_egress_port |-> 0,
              egress_ignored_i_ps |-> {}, ignored_uid |-> 0],
   logGroup |-> FALSE,
   taskRoleStatements |-> {},
   executionRolePolicies |-> {},
   taskRolePolicies |-> {}]

NoMesh ==
  [imported |-> {}, nodes |-> {}, routers |-> {}, routes |-> {},
   services |-> {}, gatewayRoutes |-> {}]

Init ==
  /\ \E r \in EnvValues, a \in AccountValues :
       environ = [AWS_DEFAULT_REGION |-> r, AWS_ACCOUNT_ID |-> a]
  /\ meshWorkshop \in BOOLEAN
  /\ pc = 1
  /\ stack = "none"
  /\ stackEnv = [account |-> None, region |-> None]
  /\ constructed = <<>>
  /\ refs = {}
  /\ platform = NoPlatform
  /\ sgRules = [g \in {ServicesSecGrpId, PatternServiceSG} |-> {}]
  /\ taskImage = NoTaskImage
  /\ containers = <<>>
  /\ taskdef = NoTaskDef
  /\ service = NoService
  /\ appmesh = NoMesh
  /\ autoscale = NoAutoscale
  /\ outputs = {}
  /\ synthesized = FALSE
  /\ cstate = <<>>
  /\ health = <<>>

\* ----------------------------------------------------------- entry point
\* _env = core.Environment(...); app = core.App(); <Stack>(app, stack_name, env=_env)
Main ==
  /\ Cur = "main"
  /\ pc' = pc + 1
  /\ stackEnv' = [account |-> getenv("AWS_ACCOUNT_ID"), region |-> getenv("AWS_DEFAULT_REGION")]
  /\ stack' = EntryStack(meshWorkshop)
  /\ Construct("ecsworkshop-frontend", {})
  /\ UNCHANGED <<environ, meshWorkshop, platform, sgRules, taskImage, containers,
                 taskdef, service, appmesh, autoscale, outputs, synthesized,
                 cstate, health>>

\* ----------------------------------------------------------- BasePlatform
\* '{}-base/BaseVPC'.format(environment_name)
VpcName(environment_name) == <<environment_name, "-base/BaseVPC">>

LookupVpc ==
  /\ Stmt("vpc")
  /\ platform' = [platform EXCEPT !.vpc =
                    [resolved |-> TRUE, vpc_name |-> VpcName(platform.environment_name)]]
  /\ Construct("VPC", {})
  /\ UNCHANGED <<sgRules, taskImage, containers, taskdef, service, appmesh,
                 autoscale, outputs>>

ImportNamespace ==
  /\ Stmt("sd_namespace")
  /\ platform' = [platform EXCEPT !.sd_namespace =
                    [resolved |-> TRUE, namespace_name |-> "NSNAME",
                     namespace_arn |-> "NSARN", namespace_id |-> "NSID"]]
  /\ Construct("SDNamespace", {})
  /\ UNCHANGED <<sgRules, taskImage, containers, taskdef, service, appmesh,
                 autoscale, outputs>>

ImportCluster ==
  /\ Stmt("ecs_cluster")
  /\ platform' = [platform EXCEPT !.ecs_cluster =
                    [resolved |-> TRUE, cluster_name |-> "ECSClusterName",
                     security_groups |-> {}]]
  /\ Construct("ECSCluster", {"VPC", "SDNamespace"})
  /\ UNCHANGED <<sgRules, taskImage, containers, taskdef, service, appmesh,
                 autoscale, outputs>>

ImportServicesSecGrp ==
  /\ Stmt("services_sec_grp")
  /\ platform' = [platform EXCEPT !.services_sec_grp =
                    [resolved |-> TRUE, security_group_id |-> "ServicesSecGrp"]]
  /\ Construct(ServicesSecGrpId, {})
  /\ UNCHANGED <<sgRules, taskImage, containers, taskdef, service, appmesh,
                 autoscale, outputs>>

\* -------------------------------------------------------- FrontendService
\* Image options that drop the region read from the process environment.
TaskImageOptionsNoRegion(region) ==
  [set |-> TRUE,
   image |-> "public.ecr.aws/aws-containers/ecsdemo-frontend",
   container_port |-> FrontendPort,
   CRYSTAL_URL |-> "http://ecsdemo-crystal.service.local:3000/crystal",
   NODEJS_URL |-> "http://ecsdemo-nodejs.service.local:3000",
   REGION |-> None]

\* ApplicationLoadBalancedTaskImageOptions(image, container_port, environment)
TaskImageOptions(region) ==
  [set |-> TRUE,
   image |-> "public.ecr.aws/aws-containers/ecsdemo-frontend",
   container_port |-> FrontendPort,
   CRYSTAL_URL |-> "http://ecsdemo-crystal.service.local:3000/crystal",
   NODEJS_URL |-> "http://ecsdemo-nodejs.service.local:3000",
   REGION |-> region]

SetTaskImage ==
  /\ Stmt("fargate_task_image")
  /\ taskImage' = TaskImageOptions(getenv("AWS_DEFAULT_REGION"))
  /\ UNCHANGED <<constructed, refs, platform, sgRules, containers, taskdef,
                 service, appmesh, autoscale, outputs>>

\* The container the load-balanced pattern declares from its image options.
PatternContainer(opts) ==
  [id |-> "FrontendFargateLBService/TaskDef/web",
   image |-> opts.image,
   essential |-> TRUE,
   environment |-> [CRYSTAL_URL |-> opts.CRYSTAL_URL,
                    NODEJS_URL |-> opts.NODEJS_URL,
                    REGION |-> opts.REGION],
   ports |-> {opts.container_port},
   dependsOn |-> {},
   healthCheck |-> NoHealthCheck,
   user |-> "",
   ulimits |-> {}]

CreateLoadBalancedService ==
  /\ Stmt("fargate_load_balanced_service")
  /\ Construct("FrontendFargateLBService", {"ECSCluster", "SDNamespace"})
  /\ taskdef' = [taskdef EXCEPT !.exists = TRUE,
                                !.id = "FrontendFargateLBService/TaskDef",
                                !.cpu = 256, !.memory_mib = 512]
  /\ containers' = ("web" :> PatternContainer(taskImage)) @@ containers
  /\ service' = [exists |-> TRUE, id |-> "FrontendFargateLBService",
                 service_name |-> "ecsdemo-frontend",
                 desired_count |-> DirectDesiredCount,
                 security_group |-> PatternServiceSG,
                 cloud_map_name |-> "",
                 public_load_balancer |-> TRUE]
  /\ UNCHANGED <<platform, sgRules, taskImage, appmesh, autoscale, outputs>>

\* aws_iam.PolicyStatement(actions=['ec2:DescribeSubnets'], resources=['*'])
DescribeSubnetsStatement ==
  [actions |-> {"ec2:DescribeSubnets"}, resources |-> {"*"}]

LbAddToTaskRolePolicy ==
  /\ Stmt("lb_add_to_task_role_policy")
  /\ taskdef' = [taskdef EXCEPT !.taskRoleStatements = @ \cup {DescribeSubnetsStatement}]
  /\ UNCHANGED <<constructed, refs, platform, sgRules, taskImage, containers,
                 service, appmesh, autoscale, outputs>>

\* connections.allow_to(other, port): an egress rule on the service's own
\* security group towards `other`, and the matching ingress rule on `other`.
AllowToRules(own, other, p, q) ==
  [g \in {own, other} |->
     IF g = own /\ g = other
     THEN {TcpRule("egress", other, p, q), TcpRule("ingress", own, p, q)}
     ELSE IF g = own THEN {TcpRule("egress", other, p, q)}
     ELSE {TcpRule("ingress", own, p, q)}]

AllowTo ==
  /\ Stmt("allow_to")
  /\ LET add == AllowToRules(service.security_group, ServicesSecGrpId,
                             FrontendPort, FrontendPort)
     IN sgRules' = [g \in DOMAIN sgRules |->
                      IF g \in DOMAIN add THEN sgRules[g] \cup add[g] ELSE sgRules[g]]
  /\ UNCHANGED <<constructed, refs, platform, taskImage, containers, taskdef,
                 service, appmesh, autoscale, outputs>>

\* ---------------------------------------------------- FrontendServiceMesh
ImportMesh ==
  /\ Stmt("mesh")
  /\ Construct("EcsWorkShop-AppMesh", {})
  /\ appmesh' = [appmesh EXCEPT !.imported = @ \cup {<<"EcsWorkShop-AppMesh", "MeshArn">>}]
  /\ UNCHANGED <<platform, sgRules, taskImage, containers, taskdef, service,
                 autoscale, outputs>>

ImportVirtualGateway ==
  /\ Stmt("mesh_vgw")
  /\ Construct("Mesh-VGW", {"EcsWorkShop-AppMesh"})
  /\ appmesh' = [appmesh EXCEPT !.imported = @ \cup {<<"Mesh-VGW", "MeshVGWName">>}]
  /\ UNCHANGED <<platform, sgRules, taskImage, containers, taskdef, service,
                 autoscale, outputs>>

ImportCrystalVS ==
  /\ Stmt("mesh_crystal_vs")
  /\ Construct("mesh-crystal-vs", {"EcsWorkShop-AppMesh"})
  /\ appmesh' = [appmesh EXCEPT !.imported = @ \cup {<<"mesh-crystal-vs", "MeshCrystalVSName">>}]
  /\ UNCHANGED <<platform, sgRules, taskImage, containers, taskdef, service,
                 autoscale, outputs>>

ImportNodeJsVS ==
  /\ Stmt("mesh_nodejs_vs")
  /\ Construct("mesh-nodejs-vs", {"EcsWorkShop-AppMesh"})
  /\ appmesh' = [appmesh EXCEPT !.imported = @ \cup {<<"mesh-nodejs-vs", "MeshNodeJsVSName">>}]
  /\ UNCHANGED <<platform, sgRules, taskImage, containers, taskdef, service,
                 autoscale, outputs>>

CreateTaskDef ==
  /\ Stmt("fargate_task_def")
  /\ Construct("FrontEndTaskDef", {})
  /\ taskdef' = [taskdef EXCEPT
       !.exists = TRUE, !.id = "FrontEndTaskDef", !.cpu = 256, !.memory_mib = 512,
       !.proxy = [enabled |-> TRUE, container_name |-> "envoy",
                  app_ports |-> {FrontendPort},
                  proxy_ingress_port |-> ProxyIngressPort,
                  proxy_egress_port |-> ProxyEgressPort,
                  egress_ignored_i_ps |-> {"169.254.170.2", "169.254.169.254"},
                  ignored_uid |-> IgnoredUid]]
  /\ UNCHANGED <<platform, sgRules, taskImage, containers, service, appmesh,
                 autoscale, outputs>>

CreateLogGroup ==
  /\ Stmt("logGroup")
  /\ Construct("ecsworkshopFrontendLogGroup", {})
  /\ taskdef' = [taskdef EXCEPT !.logGroup = TRUE]
  /\ UNCHANGED <<platform, sgRules, taskImage, containers, service, appmesh,
                 autoscale, outputs>>

\* fargate_task_def.add_container("FrontendServiceContainerDef", ...)
AppContainerDef(region) ==
  [id |-> "FrontendServiceContainerDef",
   image |-> "public.ecr.aws/aws-containers/ecsdemo-frontend",
   essential |-> TRUE,
   environment |-> [CRYSTAL_URL |-> "http://ecsdemo-crystal.service.local:3000/crystal",
                    NODEJS_URL |-> "http://ecsdemo-nodejs.service.local:3000",
                    REGION |-> region],
   ports |-> {},
   dependsOn |-> {},
   healthCheck |-> NoHealthCheck,
   user |-> "",
   ulimits |-> {}]

AddAppContainer ==
  /\ Stmt("app_container")
  /\ Construct("FrontendServiceContainerDef", {"FrontEndTaskDef", "ecsworkshopFrontendLogGroup"})
  /\ containers' = ("frontend-app" :> AppContainerDef(getenv("AWS_DEFAULT_REGION"))) @@ containers
  /\ UNCHANGED <<platform, sgRules, taskImage, taskdef, service, appmesh,
                 autoscale, outputs>>

\* aws_ecs.PortMapping(container_port=3000)
AppPortMapping == FrontendPort

AddPortMappings ==
  /\ Stmt("add_port_mappings")
  /\ containers' = [containers EXCEPT !["frontend-app"].ports = @ \cup {AppPortMapping}]
  /\ UNCHANGED <<constructed, refs, platform, sgRules, taskImage, taskdef,
                 service, appmesh, autoscale, outputs>>

\* aws_ecs.FargateService(...): with cloud_map_options it also registers the
\* service in the namespace (cloud_map_service).
CreateFargateService ==
  /\ Stmt("fargate_service")
  /\ ConstructAll(<<"FrontEndFargateService", "FrontEndFargateService/CloudmapService">>,
                  {"FrontEndTaskDef", "ECSCluster", ServicesSecGrpId, "SDNamespace"})
  /\ service' = [exists |-> TRUE, id |-> "FrontEndFargateService",
                 service_name |-> "ecsdemo-frontend",
                 desired_count |-> MeshDesiredCount,
                 security_group |-> ServicesSecGrpId,
                 cloud_map_name |-> "ecsdemo-frontend",
                 public_load_balancer |-> FALSE]
  /\ UNCHANGED <<platform, sgRules, taskImage, containers, taskdef, appmesh,
                 autoscale, outputs>>

CreateVirtualNode ==
  /\ Stmt("mesh_frontend_vn")
  /\ Construct("MeshFrontEndNode",
               {"EcsWorkShop-AppMesh", "FrontEndFargateService/CloudmapService",
                "mesh-crystal-vs", "mesh-nodejs-vs"})
  /\ appmesh' = [appmesh EXCEPT !.nodes = @ \cup
       {[id |-> "MeshFrontEndNode", virtual_node_name |-> "frontend",
         listeners |-> {FrontendPort},
         service_discovery |-> "FrontEndFargateService/CloudmapService",
         backends |-> {"mesh-crystal-vs", "mesh-nodejs-vs"},
         access_log |-> "/dev/stdout"]}]
  /\ UNCHANGED <<platform, sgRules, taskImage, containers, taskdef, service,
                 autoscale, outputs>>

\* fargate_task_def.add_container("FrontendServiceProxyContdef", ...)
EnvoyContainerDef(region) ==
  [id |-> "FrontendServiceProxyContdef",
   image |-> "public.ecr.aws/appmesh/aws-appmesh-envoy:v1.18.3.0-prod",
   essential |-> TRUE,
   environment |-> [REGION |-> region,
                    ENVOY_LOG_LEVEL |-> "critical",
                    ENABLE_ENVOY_STATS_TAGS |-> "1",
                    APPMESH_RESOURCE_ARN |-> <<"MeshFrontEndNode", "virtual_node_arn">>],
   ports |-> {},
   dependsOn |-> {},
   healthCheck |-> [enabled |-> TRUE, interval |-> HealthInterval,
                    timeout |-> HealthTimeout, retries |-> HealthRetries,
                    command |-> <<"CMD-SHELL",
                      "curl -s http://localhost:9901/server_info | grep state | grep -q LIVE">>],
   user |-> "1337",
   ulimits |-> {}]

AddEnvoyContainer ==
  /\ Stmt("envoy_container")
  /\ Construct("FrontendServiceProxyContdef",
               {"FrontEndTaskDef", "ecsworkshopFrontendLogGroup", "MeshFrontEndNode"})
  /\ containers' = ("envoy" :> EnvoyContainerDef(getenv("AWS_DEFAULT_REGION"))) @@ containers
  /\ UNCHANGED <<platform, sgRules, taskImage, taskdef, service, appmesh,
                 autoscale, outputs>>

AddUlimits ==
  /\ Stmt("add_ulimits")
  /\ containers' = [containers EXCEPT !["envoy"].ulimits = @ \cup
       {[name |-> "NOFILE", soft_limit |-> NoFileLimit, hard_limit |-> NoFileLimit]}]
  /\ UNCHANGED <<constructed, refs, platform, sgRules, taskImage, taskdef,
                 service, appmesh, autoscale, outputs>>

\* The dependency with the weaker condition START.
AppDependencyStart == [container |-> "envoy", condition |-> "START"]

\* aws_ecs.ContainerDependency(container=envoy_container, condition=HEALTHY)
AppDependency == [container |-> "envoy", condition |-> "HEALTHY"]

AddContainerDependencies ==
  /\ Stmt("add_container_dependencies")
  /\ containers' = [containers EXCEPT !["frontend-app"].dependsOn = @ \cup {AppDependency}]
  /\ refs' = refs \cup {<<"FrontendServiceContainerDef", "FrontendServiceProxyContdef">>}
  /\ UNCHANGED <<constructed, platform, sgRules, taskImage, taskdef, service,
                 appmesh, autoscale, outputs>>

AddToTaskRolePolicy ==
  /\ Stmt("add_to_task_role_policy")
  /\ taskdef' = [taskdef EXCEPT !.taskRoleStatements = @ \cup {DescribeSubnetsStatement}]
  /\ UNCHANGED <<constructed, refs, platform, sgRules, taskImage, containers,
                 service, appmesh, autoscale, outputs>>

\* An any-origin rule that ignores the port range it is given.
AnyIpv4RuleAllPorts(p, q) == TcpRule("ingress", "0.0.0.0/0", 0, 65535)

\* connections.allow_from_any_ipv4(port): an ingress rule from 0.0.0.0/0 on
\* every security group of the connections object.
AnyIpv4Rule(p, q) == TcpRule("ingress", "0.0.0.0/0", p, q)

AllowFromAnyIpv4 ==
  /\ Stmt("allow_from_any_ipv4")
  /\ sgRules' = [g \in DOMAIN sgRules |->
                   IF g = service.security_group
                   THEN sgRules[g] \cup {AnyIpv4Rule(FrontendPort, FrontendPort)}
                   ELSE sgRules[g]]
  /\ UNCHANGED <<constructed, refs, platform, taskImage, containers, taskdef,
                 service, appmesh, autoscale, outputs>>

\* The four add_managed_policy statements, in order.
AddManagedPolicy(role, name) ==
  IF role = "execution_role"
  THEN taskdef' = [taskdef EXCEPT !.executionRolePolicies = @ \cup {name}]
  ELSE taskdef' = [taskdef EXCEPT !.taskRolePolicies = @ \cup {name}]

RegistryReadPolicy == "AmazonEC2ContainerRegistryReadOnly"
LogsPolicy == "CloudWatchLogsFullAccess"
MonitoringPolicy == "CloudWatchFullAccess"
\* The monitoring policy attached a second time in place of the envoy policy.
EnvoyAccessPolicyDuplicate == "CloudWatchFullAccess"
EnvoyAccessPolicy == "AWSAppMeshEnvoyAccess"

AttachExecPolicyEcr ==
  /\ Stmt("exec_policy_ecr")
  /\ AddManagedPolicy("execution_role", RegistryReadPolicy)
  /\ UNCHANGED <<constructed, refs, platform, sgRules, taskImage, containers,
                 service, appmesh, autoscale, outputs>>

AttachExecPolicyLogs ==
  /\ Stmt("exec_policy_logs")
  /\ AddManagedPolicy("execution_role", LogsPolicy)
  /\ UNCHANGED <<constructed, refs, platform, sgRules, taskImage, containers,
                 service, appmesh, autoscale, outputs>>

AttachTaskPolicyCloudWatch ==
  /\ Stmt("task_policy_cloudwatch")
  /\ AddManagedPolicy("task_role", MonitoringPolicy)
  /\ UNCHANGED <<constructed, refs, platform, sgRules, taskImage, containers,
                 service, appmesh, autoscale, outputs>>

AttachTaskPolicyEnvoy ==
  /\ Stmt("task_policy_envoy")
  /\ AddManagedPolicy("task_role", EnvoyAccessPolicy)
  /\ UNCHANGED <<constructed, refs, platform, sgRules, taskImage, containers,
                 service, appmesh, autoscale, outputs>>

CreateVirtualRouter ==
  /\ Stmt("meshVR")
  /\ Construct("MeshVirtualRouter", {"EcsWorkShop-AppMesh"})
  /\ appmesh' = [appmesh EXCEPT !.routers = @ \cup
       {[id |-> "MeshVirtualRouter", virtual_router_name |-> "FrontEnd",
         listeners |-> {FrontendPort}]}]
  /\ UNCHANGED <<platform, sgRules, taskImage, containers, taskdef, service,
                 autoscale, outputs>>

\* A route that splits traffic with a backend's node.
WeightedTargetsSplit ==
  <<[virtual_node |-> "MeshFrontEndNode", weight |-> RouteWeight],
    [virtual_node |-> "mesh-crystal-vs", weight |-> RouteWeight]>>

\* weighted_targets=[WeightedTarget(virtual_node=mesh_frontend_vn, weight=1)]
WeightedTargets ==
  <<[virtual_node |-> "MeshFrontEndNode", weight |-> RouteWeight]>>

AddRoute ==
  /\ Stmt("add_route")
  /\ Construct("MeshFrontEndVRRoute",
               {"MeshVirtualRouter"} \cup
               {WeightedTargets[i].virtual_node : i \in 1..Len(WeightedTargets)})
  /\ appmesh' = [appmesh EXCEPT !.routes = @ \cup
       {[id |-> "MeshFrontEndVRRoute", router |-> "MeshVirtualRouter",
         route_name |-> "frontend-a", protocol |-> "http",
         weighted_targets |-> WeightedTargets]}]
  /\ UNCHANGED <<platform, sgRules, taskImage, containers, taskdef, service,
                 autoscale, outputs>>

\* "{}.{}".format(cloud_map_service.service_name, namespace.namespace_name)
VirtualServiceName(service_name, namespace_name) ==
  <<service_name, ".", namespace_name>>

CreateVirtualService ==
  /\ Stmt("mesh_frontend_vs")
  /\ Construct("mesh-frontend-vs",
               {"MeshVirtualRouter", "FrontEndFargateService/CloudmapService", "SDNamespace"})
  /\ appmesh' = [appmesh EXCEPT !.services = @ \cup
       {[id |-> "mesh-frontend-vs", provider |-> "MeshVirtualRouter",
         virtual_service_name |->
           VirtualServiceName(service.cloud_map_name,
                              platform.sd_namespace.namespace_name)]}]
  /\ UNCHANGED <<platform, sgRules, taskImage, containers, taskdef, service,
                 autoscale, outputs>>

AddGatewayRoute ==
  /\ Stmt("mesh_gt_router")
  /\ Construct("MeshVGWRouter", {"Mesh-VGW", "mesh-frontend-vs"})
  /\ appmesh' = [appmesh EXCEPT !.gatewayRoutes = @ \cup
       {[id |-> "MeshVGWRouter", gateway |-> "Mesh-VGW",
         gateway_route_name |-> "frontend-router", protocol |-> "http",
         route_target |-> "mesh-frontend-vs"]}]
  /\ UNCHANGED <<platform, sgRules, taskImage, containers, taskdef, service,
                 autoscale, outputs>>

AutoScaleTaskCount ==
  /\ Stmt("auto_scale_task_count")
  /\ Construct("FrontEndFargateService/TaskCount", {"FrontEndFargateService"})
  /\ autoscale' = [autoscale EXCEPT !.enabled = TRUE,
                                    !.min_capacity = MinCapacity,
                                    !.max_capacity = MaxCapacity]
  /\ UNCHANGED <<platform, sgRules, taskImage, containers, taskdef, service,
                 appmesh, outputs>>

\* autoscale.scale_on_cpu_utilization("CPUAutoscaling", ...)
CpuScalingPolicy ==
  [id |-> "CPUAutoscaling", metric |-> "ECSServiceAverageCPUUtilization",
   target_utilization_percent |-> TargetUtilizationPercent,
   scale_in_cooldown |-> CooldownSeconds,
   scale_out_cooldown |-> CooldownSeconds]

ScaleOnCpuUtilization ==
  /\ Stmt("scale_on_cpu_utilization")
  /\ Construct("CPUAutoscaling", {"FrontEndFargateService/TaskCount"})
  /\ autoscale' = [autoscale EXCEPT !.policies = @ \cup {CpuScalingPolicy}]
  /\ UNCHANGED <<platform, sgRules, taskImage, containers, taskdef, service,
                 appmesh, outputs>>

\* core.CfnOutput(self, id, value=<construct>.<attribute>, export_name=id)
CfnOutput(id, of, attribute) ==
  /\ Construct(id, {of})
  /\ outputs' = outputs \cup {[export_name |-> id, construct |-> of, attribute |-> attribute]}
  /\ UNCHANGED <<platform, sgRules, taskImage, containers, taskdef, service,
                 appmesh, autoscale>>

OutputVnArn ==
  /\ Stmt("output_vn_arn")
  /\ CfnOutput("MeshFrontendVNARN", "MeshFrontEndNode", "virtual_node_arn")

OutputVnName ==
  /\ Stmt("output_vn_name")
  /\ CfnOutput("MeshFrontendVNName", "MeshFrontEndNode", "virtual_node_name")

OutputVgrArn ==
  /\ Stmt("output_vgr_arn")
  /\ CfnOutput("MeshFrontendVGRARN", "MeshVGWRouter", "gateway_route_arn")

\* ------------------------------------------------------------ app.synth()
\* The template is emitted; one task of the task definition is then launched
\* with every declared container pending.
Synth ==
  /\ Cur = "synth"
  /\ pc' = pc + 1
  /\ synthesized' = TRUE
  /\ cstate' = [c \in DOMAIN containers |-> "PENDING"]
  /\ health' = [c \in DOMAIN containers |-> "UNKNOWN"]
  /\ UNCHANGED <<environ, meshWorkshop, stack, stackEnv, constructed, refs,
                 platform, sgRules, taskImage, containers, taskdef, service,
                 appmesh, autoscale, outputs>>

\* --------------------------------------------------------- task start-up
\* What the declared dependsOn and healthCheck of the task definition ask of
\* the container agent: a container starts once each of its dependencies
\* meets its condition; a container with a health check reports HEALTHY or
\* UNHEALTHY while it runs.
DependencyMet(d) ==
  /\ d.container \in DOMAIN cstate
  /\ IF d.condition = "HEALTHY"
     THEN health[d.container] = "HEALTHY"
     ELSE cstate[d.container] = "RUNNING"

StartContainer(c) ==
  /\ synthesized
  /\ cstate[c] = "PENDING"
  /\ \A d \in containers[c].dependsOn : DependencyMet(d)
  /\ cstate' = [cstate EXCEPT ![c] = "RUNNING"]
  /\ UNCHANGED <<environ, meshWorkshop, pc, stack, stackEnv, constructed, refs,
                 platform, sgRules, taskImage, containers, taskdef, service,
                 appmesh, autoscale, outputs, synthesized, health>>

HealthCheckPass(c) ==
  /\ synthesized
  /\ cstate[c] = "RUNNING"
  /\ containers[c].healthCheck.enabled
  /\ health[c] # "HEALTHY"
  /\ health' = [health EXCEPT ![c] = "HEALTHY"]
  /\ UNCHANGED <<environ, meshWorkshop, pc, stack, stackEnv, constructed, refs,
                 platform, sgRules, taskImage, containers, taskdef, service,
                 appmesh, autoscale, outputs, synthesized, cstate>>

HealthCheckFail(c) ==
  /\ synthesized
  /\ cstate[c] = "RUNNING"
  /\ containers[c].healthCheck.enabled
  /\ health[c] # "UNHEALTHY"
  /\ health' = [health EXCEPT ![c] = "UNHEALTHY"]
  /\ UNCHANGED <<environ, meshWorkshop, pc, stack, stackEnv, constructed, refs,
                 platform, sgRules, taskImage, containers, taskdef, service,
                 appmesh, autoscale, outputs, synthesized, cstate>>

StartSomeContainer == \E c \in DOMAIN cstate : StartContainer(c)
ReportHealthy == \E c \in DOMAIN cstate : HealthCheckPass(c)
ReportUnhealthy == \E c \in DOMAIN cstate : HealthCheckFail(c)

\* ------------------------------------------------------------------ Next
Next ==
  \/ Main
  \/ LookupVpc
  \/ ImportNamespace
  \/ ImportCluster
  \/ ImportServicesSecGrp
  \/ SetTaskImage
  \/ CreateLoadBalancedService
  \/ LbAddToTaskRolePolicy
  \/ AllowTo
  \/ ImportMesh
  \/ ImportVirtualGateway
  \/ ImportCrystalVS
  \/ ImportNodeJsVS
  \/ CreateTaskDef
  \/ CreateLogGroup
  \/ AddAppContainer
  \/ AddPortMappings
  \/ CreateFargateService
  \/ CreateVirtualNode
  \/ AddEnvoyContainer
  \/ AddUlimits
  \/ AddContainerDependencies
  \/ AddToTaskRolePolicy
  \/ AllowFromAnyIpv4
  \/ AttachExecPolicyEcr
  \/ AttachExecPolicyLogs
  \/ AttachTaskPolicyCloudWatch
  \/ AttachTaskPolicyEnvoy
  \/ CreateVirtualRouter
  \/ AddRoute
  \/ CreateVirtualService
  \/ AddGatewayRoute
  \/ AutoScaleTaskCount
  \/ ScaleOnCpuUtilization
  \/ OutputVnArn
  \/ OutputVnName
  \/ OutputVgrArn
  \/ Synth
  \/ StartSomeContainer
  \/ ReportHealthy
  \/ ReportUnhealthy

Spec == Init /\ [][Next]_vars

\* =============================================================== claims
IsMesh == stack = "FrontendServiceMesh"
IsDirect == stack = "FrontendService"

\* The application container of the stack under construction.
AppContainerName == IF IsMesh THEN "frontend-app" ELSE "web"

\* ---------------------------------------------------------------- C1
\* The declared dependencies of the two containers of the mesh task.
C1_DependencyDeclared ==
  (IsMesh /\ synthesized) =>
     /\ containers["frontend-app"].dependsOn = {[container |-> "envoy", condition |-> "HEALTHY"]}
     /\ containers["envoy"].dependsOn = {}
     /\ containers["envoy"].healthCheck.enabled

\* A step that starts the application container finds the sidecar healthy.
C1_AppStartsAfterHealthy ==
  (IsMesh /\ synthesized
     /\ cstate["frontend-app"] = "PENDING" /\ cstate'["frontend-app"] = "RUNNING")
  => (cstate["envoy"] = "RUNNING" /\ health["envoy"] = "HEALTHY")

\* C1: in the mesh strategy the application container 'frontend-app' is
\* declared to depend on the sidecar 'envoy' with condition HEALTHY, the
\* sidecar depends on nothing, and in every start-up of the task the
\* application container leaves PENDING only while the sidecar's reported
\* health is HEALTHY.
C1_AppWaitsForHealthySidecar ==
  [] C1_DependencyDeclared /\ [][C1_AppStartsAfterHealthy]_vars

C1_Witness ==
  IsMesh /\ synthesized /\ cstate["frontend-app"] = "RUNNING"

\* ---------------------------------------------------------------- C2
\* The references the constructor hands over, as <<holder, referenced>>.
ListedRefs ==
  {<<"MeshFrontEndNode", "EcsWorkShop-AppMesh">>,
   <<"MeshFrontEndNode", "mesh-crystal-vs">>,
   <<"MeshFrontEndNode", "mesh-nodejs-vs">>,
   <<"MeshFrontEndNode", "FrontEndFargateService/CloudmapService">>,
   <<"FrontendServiceProxyContdef", "MeshFrontEndNode">>,
   <<"MeshFrontEndVRRoute", "MeshFrontEndNode">>,
   <<"mesh-frontend-vs", "MeshVirtualRouter">>,
   <<"mesh-frontend-vs", "FrontEndFargateService/CloudmapService">>,
   <<"MeshVGWRouter", "Mesh-VGW">>,
   <<"MeshVGWRouter", "mesh-frontend-vs">>,
   <<"MeshFrontendVNARN", "MeshFrontEndNode">>,
   <<"MeshFrontendVNName", "MeshFrontEndNode">>,
   <<"MeshFrontendVGRARN", "MeshVGWRouter">>}

\* C2: during the construction pass of FrontendServiceMesh every reference
\* held by a construct points at a construct that already exists, and each
\* listed holder (virtual node, sidecar container, route, virtual service,
\* gateway route, outputs) is constructed after what it references.
C2_NoForwardReferences ==
  /\ \A r \in refs : Built(r[2])
  /\ \A r \in ListedRefs :
       Built(r[1]) => /\ r \in refs
                      /\ Built(r[2])
                      /\ IndexOf(r[2]) < IndexOf(r[1])

C2_Witness ==
  /\ IsMesh /\ synthesized
  /\ \A r \in ListedRefs : Built(r[1]) /\ r \in refs

\* ---------------------------------------------------------------- C3
SidecarAdded == "envoy" \in DOMAIN containers
DependencyDeclared ==
  "frontend-app" \in DOMAIN containers /\ containers["frontend-app"].dependsOn # {}
ServiceCreated == service.exists
NodeCreated == appmesh.nodes # {}
RouterCreated == appmesh.routers # {}
VirtualServiceCreated == appmesh.services # {}
GatewayRouteCreated == appmesh.gatewayRoutes # {}
PoliciesStarted == taskdef.executionRolePolicies \cup taskdef.taskRolePolicies # {}
PoliciesDone ==
  /\ taskdef.executionRolePolicies = {"AmazonEC2ContainerRegistryReadOnly", "CloudWatchLogsFullAccess"}
  /\ taskdef.taskRolePolicies = {"CloudWatchFullAccess", "AWSAppMeshEnvoyAccess"}
IngressOpened ==
  \E r \in sgRules[ServicesSecGrpId] : r.direction = "ingress" /\ r.peer = "0.0.0.0/0"
AutoscalingEnabled == autoscale.enabled

\* C3 as stated: sidecar and dependency before the service, the service
\* before the virtual node, then router, virtual service, gateway route,
\* managed policies, any-origin ingress, autoscaling.
C3_SpecOrder ==
  IsMesh =>
    /\ ServiceCreated => (SidecarAdded /\ DependencyDeclared)
    /\ NodeCreated => ServiceCreated
    /\ RouterCreated => NodeCreated
    /\ VirtualServiceCreated => RouterCreated
    /\ GatewayRouteCreated => VirtualServiceCreated
    /\ PoliciesStarted => GatewayRouteCreated
    /\ IngressOpened => PoliciesDone
    /\ AutoscalingEnabled => IngressOpened

\* C3 (amended): the mesh provisioner creates the service first, then the
\* virtual node, then adds the sidecar container and declares the start-up
\* dependency, then opens the any-origin ingress, attaches the managed
\* policies, and creates the virtual router, the virtual service, the gateway
\* route and autoscaling, in that order.
C3_CodeOrder ==
  IsMesh =>
    /\ NodeCreated => ServiceCreated
    /\ SidecarAdded => NodeCreated
    /\ DependencyDeclared => SidecarAdded
    /\ IngressOpened => DependencyDeclared
    /\ PoliciesStarted => IngressOpened
    /\ RouterCreated => PoliciesDone
    /\ VirtualServiceCreated => RouterCreated
    /\ GatewayRouteCreated => VirtualServiceCreated
    /\ AutoscalingEnabled => GatewayRouteCreated

C3_Witness ==
  /\ IsMesh /\ synthesized
  /\ ServiceCreated /\ NodeCreated /\ SidecarAdded /\ DependencyDeclared
  /\ IngressOpened /\ PoliciesDone /\ RouterCreated /\ VirtualServiceCreated
  /\ GatewayRouteCreated /\ AutoscalingEnabled

\* ---------------------------------------------------------------- C4
NoMeshEntity ==
  /\ \A id \in MeshEntityIds : ~Built(id)
  /\ appmesh.nodes = {} /\ appmesh.routers = {} /\ appmesh.routes = {}
  /\ appmesh.services = {} /\ appmesh.gatewayRoutes = {}

\* C4: at every step of the construction of FrontendService, and after it,
\* no virtual node, router, route, virtual service or gateway route exists;
\* the entry point as committed (line 354 active) instantiates only
\* FrontendService, so its synthesized app holds no mesh entity.
C4_DirectCreatesNoMeshEntity ==
  (IsDirect \/ ~meshWorkshop) => NoMeshEntity

C4_Witness ==
  IsDirect /\ ~meshWorkshop /\ synthesized /\ service.exists /\ NoMeshEntity

\* ---------------------------------------------------------------- C5
NamespaceFrame ==
  platform.sd_namespace.resolved => platform'.sd_namespace = platform.sd_namespace
SecGrpReferenceFrame ==
  platform.services_sec_grp.resolved =>
    platform'.services_sec_grp = platform.services_sec_grp

\* C5 as stated: no step of either strategy adds, removes or changes a rule
\* or attribute on the shared security boundary or the namespace.
C5_BoundaryNeverMutated ==
  [][/\ NamespaceFrame
     /\ SecGrpReferenceFrame
     /\ sgRules'[ServicesSecGrpId] = sgRules[ServicesSecGrpId]]_vars

\* The rules a finished stack has declared on the shared security boundary.
BoundaryRulesOf(cls) ==
  IF cls = "FrontendServiceMesh"
  THEN {[direction |-> "ingress", peer |-> "0.0.0.0/0", protocol |-> "TCP",
         from_port |-> 3000, to_port |-> 3000]}
  ELSE {[direction |-> "ingress", peer |-> PatternServiceSG, protocol |-> "TCP",
         from_port |-> 3000, to_port |-> 3000]}

\* C5 (amended): the namespace and the imported reference to the shared
\* security boundary are never changed once resolved; the rules declared on
\* the boundary are never removed, and each strategy adds exactly one: the
\* direct strategy an ingress rule for TCP 3000 from the service's own
\* security group, the mesh strategy an ingress rule for TCP 3000 from any
\* IPv4 address.
C5_BoundaryGainsOneIngressRule ==
  /\ [](synthesized => sgRules[ServicesSecGrpId] = BoundaryRulesOf(stack))
  /\ [][/\ NamespaceFrame
        /\ SecGrpReferenceFrame
        /\ sgRules[ServicesSecGrpId] \subseteq sgRules'[ServicesSecGrpId]
        /\ sgRules'[ServicesSecGrpId] \subseteq BoundaryRulesOf(stack')]_vars

C5_Witness ==
  /\ synthesized
  /\ platform.sd_namespace.resolved
  /\ sgRules[ServicesSecGrpId] # {}

\* ---------------------------------------------------------------- C7
ManagedPolicyCount ==
  Cardinality(taskdef.executionRolePolicies) + Cardinality(taskdef.taskRolePolicies)

\* C7 as stated: after construction the managed policies attached across the
\* execution role and the task role number three.
C7_ThreeManagedPolicies ==
  (IsMesh /\ synthesized) => ManagedPolicyCount = 3

\* C7 (amended): the mesh provisioner attaches four managed policies, two to
\* the execution role (registry pull, log write) and two to the task role
\* (monitoring write, mesh envoy access); after construction the total
\* across the two roles is four.
C7_FourManagedPolicies ==
  (IsMesh /\ synthesized) =>
     /\ taskdef.executionRolePolicies =
          {"AmazonEC2ContainerRegistryReadOnly", "CloudWatchLogsFullAccess"}
     /\ taskdef.taskRolePolicies = {"CloudWatchFullAccess", "AWSAppMeshEnvoyAccess"}
     /\ ManagedPolicyCount = 4

C7_Witness ==
  IsMesh /\ synthesized /\ ManagedPolicyCount = 4

\* ---------------------------------------------------------------- C8
RegionInput == environ.AWS_DEFAULT_REGION
AppRegion == containers[AppContainerName].environment.REGION

\* C8 as stated: the application container exposes port 3000 and, whenever
\* AWS_DEFAULT_REGION is set, its REGION value is non-empty and equal to it.
C8_RegionNonEmptyWhenSet ==
  synthesized =>
     /\ 3000 \in containers[AppContainerName].ports
     /\ RegionInput.isset => (AppRegion = RegionInput /\ AppRegion.val # <<>>)

\* C8 (amended): for both strategies the application container exposes
\* container port 3000, and whenever AWS_DEFAULT_REGION is set the REGION
\* value equals that input, hence is non-empty whenever the input is a
\* non-empty string.
C8_RegionForwarded ==
  synthesized =>
     /\ containers[AppContainerName].ports = {3000}
     /\ RegionInput.isset =>
          /\ AppRegion = RegionInput
          /\ RegionInput.val # <<>> => AppRegion.val # <<>>

C8_Witness ==
  /\ synthesized /\ IsDirect
  /\ RegionInput.isset /\ RegionInput.val # <<>>
  /\ AppRegion = RegionInput

\* ---------------------------------------------------------------- C9
\* C9: the autoscaling of the mesh strategy has floor 3 and ceiling 10, one
\* policy on average CPU utilization with target 50 and cooldowns of 30
\* seconds each way, and the service's desired count 3 lies in [3, 10].
C9_AutoscalingPolicy ==
  /\ autoscale.enabled => (autoscale.min_capacity = 3 /\ autoscale.max_capacity = 10)
  /\ (IsMesh /\ synthesized) =>
       /\ autoscale.enabled
       /\ autoscale.policies =
            {[id |-> "CPUAutoscaling", metric |-> "ECSServiceAverageCPUUtilization",
              target_utilization_percent |-> 50,
              scale_in_cooldown |-> 30, scale_out_cooldown |-> 30]}
       /\ service.desired_count = 3
       /\ autoscale.min_capacity <= service.desired_count
       /\ service.desired_count <= autoscale.max_capacity

C9_Witness ==
  IsMesh /\ synthesized /\ autoscale.enabled /\ autoscale.policies # {}

\* --------------------------------------------------------------- C10
\* C10: the virtual router has exactly one route, with exactly one weighted
\* target of weight 1, the frontend virtual node; the references form the
\* chain gateway route -> virtual service -> virtual router -> virtual node
\* -> service registry entry, with no other routing target.
C10_SingleRouteChain ==
  /\ \A rt \in appmesh.routes :
       /\ Len(rt.weighted_targets) = 1
       /\ rt.weighted_targets[1] = [virtual_node |-> "MeshFrontEndNode", weight |-> 1]
  /\ (IsMesh /\ synthesized) =>
       /\ Cardinality(appmesh.routes) = 1
       /\ Cardinality(appmesh.gatewayRoutes) = 1
       /\ Cardinality(appmesh.services) = 1
       /\ Cardinality(appmesh.routers) = 1
       /\ Cardinality(appmesh.nodes) = 1
       /\ \A g \in appmesh.gatewayRoutes, v \in appmesh.services,
             r \in appmesh.routers, rt \in appmesh.routes, n \in appmesh.nodes :
            /\ g.route_target = v.id
            /\ v.provider = r.id
            /\ rt.router = r.id
            /\ rt.weighted_targets[1].virtual_node = n.id
            /\ n.service_discovery = "FrontEndFargateService/CloudmapService"
            /\ Built(n.service_discovery)

C10_Witness ==
  IsMesh /\ synthesized /\ appmesh.routes # {} /\ appmesh.gatewayRoutes # {}

====
